---- MODULE Spec2Model ----
(***************************************************************************)
(* Relationship subsystem of the family-tree backend:                      *)
(* RelationshipService (create / update / delete with reciprocal rows),    *)
(* the RelationshipCreate schema validators, the CHECK constraints of the  *)
(* initial migration and PersonService create / delete.                    *)
(***************************************************************************)
EXTENDS Integers, FiniteSets, Sequences, TLC

\* Python None / SQL NULL
NULL == "null"

\* ---------------------------------------------------------------- bounds
MaxPeople == 3
MaxRelId == 3
\* create_relationship calls in flight at once in the interleaved specification
MaxCalls == 2
\* rows stored at once in the specification of the queries
MaxQueryRels == 4
\* document ids and clock readings of the repository
MaxDocs == 2
MaxClock == 2

PersonIds == 1..MaxPeople
RelIds == 1..MaxRelId
CallIds == 1..MaxCalls

\* ---------------------------------------------------------------- inputs
\* Optional[int]: None is the empty set, the integer n is {n}
None == {}
Some(n) == {n}

\* (from_person_id, to_person_id) of a request
PairInputs == {<<1, 2>>, <<2, 1>>, <<1, 1>>, <<3, 3>>, <<1, 3>>}
CategoryInputs == {"family_line", "partner", "sibling", "extended_family"}
\* absent, one subtype of the service's list, and for partner one of the schema's
\* list only ("married") and one of both lists ("engaged", as is "cousin")
SubtypeInputs(category) ==
    CASE category = "family_line" -> {NULL, "biological_parent"}
      [] category = "partner" -> {NULL, "engaged", "married"}
      [] category = "sibling" -> {NULL, "full_sibling"}
      [] category = "extended_family" -> {NULL, "cousin"}
GenerationInputs == {None, Some(-1), Some(0), Some(1)}
\* is_active / start_date / end_date / notes of a request
DetailInputs ==
    { [is_active |-> TRUE, start_date |-> NULL, end_date |-> NULL, notes |-> NULL],
      [is_active |-> FALSE, start_date |-> "d1", end_date |-> "d2", notes |-> "n"] }

Candidate(pair, category, subtype, generation, detail) ==
    [from_person_id |-> pair[1], to_person_id |-> pair[2],
     relationship_category |-> category,
     relationship_subtype |-> subtype, generation_difference |-> generation,
     is_active |-> detail.is_active, start_date |-> detail.start_date,
     end_date |-> detail.end_date, notes |-> detail.notes]

\* every payload over the input sets: what the checks of a call are evaluated on
Candidates ==
    UNION { { Candidate(p, c, s, g, d) :
                p \in PairInputs, s \in SubtypeInputs(c),
                g \in GenerationInputs, d \in DetailInputs } :
            c \in CategoryInputs }

DefaultDetail == [is_active |-> TRUE, start_date |-> NULL, end_date |-> NULL,
                  notes |-> NULL]

OtherDetail == [is_active |-> FALSE, start_date |-> "d1", end_date |-> "d2",
                notes |-> "n"]

\* the payloads the calls of create_relationship are drawn from: between the two
\* persons of one tree every category with a subtype of the service's list, the
\* partner request in both directions, and one payload for each way of being refused
Requests ==
    { Candidate(<<1, 2>>, "partner", "engaged", None, DefaultDetail),
      Candidate(<<2, 1>>, "partner", "engaged", None, OtherDetail),
      Candidate(<<1, 2>>, "sibling", "full_sibling", None, DefaultDetail),
      Candidate(<<1, 2>>, "family_line", "biological_parent", Some(-1), DefaultDetail),
      Candidate(<<1, 2>>, "extended_family", "cousin", None, DefaultDetail) }
    \cup { Candidate(p, "partner", "engaged", None, DefaultDetail) :
            p \in {<<1, 1>>, <<3, 3>>, <<1, 3>>} }
    \cup { Candidate(<<1, 2>>, csg[1], csg[2], csg[3], DefaultDetail) :
            csg \in { <<"family_line", "biological_parent", Some(0)>>,
                      <<"family_line", NULL, Some(-1)>>,
                      <<"partner", "married", None>>,
                      <<"partner", NULL, None>> } }

\* RelationshipUpdate payloads: `fields` are the keys that were set
\* (update_data.dict(exclude_unset=True)); the other entries are not read
Patch(fields, category, subtype, generation) ==
    [fields |-> fields, relationship_category |-> category,
     relationship_subtype |-> subtype, generation_difference |-> generation]

PatchInputs ==
    { Patch({"relationship_category", "relationship_subtype"}, "partner", "engaged", None),
      Patch({"relationship_category", "relationship_subtype"}, "extended_family",
            "cousin", None),
      Patch({"relationship_category"}, "family_line", NULL, None),
      Patch({"relationship_subtype"}, "none", NULL, None),
      Patch({"generation_difference"}, "none", NULL, Some(0)) }

\* ---------------------------------------------------------------- state
VARIABLES
    check_constraints,  \* TRUE: tables built by the migration (CHECK constraints);
                        \* FALSE: built by create_database() (metadata.create_all)
    people,             \* person id -> family_tree_id, NULL when no such row
    rels,               \* the rows of table "relationships"
    last,               \* outcome of the last service call, when it was a mutation
    calls,              \* call id -> the create_relationship coroutine in flight:
                        \* its await point, payload, row id and outcome
    seen,               \* the rows the last concurrent read returned
    answer,             \* result of the last service call, when it was a query
                        \* (find path, infer, validate)
    dates,              \* person id -> birth_date and death_date of the person
    age,                \* the last calculate_person_age call: as_of_date and result
    awaitable,          \* whether the calls on a collection reference return awaitables
    docs,               \* the documents of the repository's collection, by id
    clock,              \* datetime.now() of the last repository call
    reply               \* how the last BaseRepository call ended

\* what the repository works on
repository == <<awaitable, docs, clock, reply>>

\* what the relationship service never touches
other == <<dates, age, repository>>

\* what the coroutines of the interleaved specification never touch
aux == <<answer, other>>

vars == <<check_constraints, people, rels, last, calls, seen, aux>>

\* ---------------------------------------------------------------- schema
\* RelationshipBase.validate_relationship_subtype: valid_subtypes
SchemaSubtypes(category) ==
    CASE category = "family_line" -> {"biological", "adoptive", "step", "foster"}
      [] category = "partner" -> {"married", "engaged", "dating", "divorced",
                                   "separated", "widowed"}
      [] category = "sibling" -> {"biological", "half", "step", "adoptive"}
      [] category = "extended_family" -> {"aunt", "uncle", "cousin", "grandparent",
                                           "grandchild", "in_law"}
      [] OTHER -> {}

\* RelationshipService._validate_relationship_rules: valid_subtypes
ServiceSubtypes(category) ==
    CASE category = "family_line" -> {"biological_parent", "adoptive_parent",
                                       "step_parent", "foster_parent"}
      [] category = "partner" -> {"spouse", "domestic_partner", "engaged"}
      [] category = "sibling" -> {"full_sibling", "half_sibling", "step_sibling",
                                   "adoptive_sibling"}
      [] category = "extended_family" -> {"grandparent", "aunt_uncle", "cousin",
                                           "niece_nephew"}
      [] OTHER -> {}

Abs(n) == IF n < 0 THEN -n ELSE n

\* RelationshipCreate(...) as the constructor validates its arguments: the
\* category pattern, ge/le of generation_difference, validate_generation_difference
\* (it runs on a value that was passed, not on the default of an omitted field:
\* `generation_passed`), validate_relationship_subtype and validate_different_people
RelationshipCreateValid(c, generation_passed) ==
    /\ c.relationship_category \in
            {"family_line", "partner", "sibling", "extended_family"}
    /\ \A n \in c.generation_difference : -1 <= n /\ n <= 1
    /\ ~(/\ generation_passed
          /\ c.relationship_category = "family_line"
          /\ c.generation_difference = None)
    /\ ~(c.relationship_category # "family_line" /\ c.generation_difference # None)
    /\ \/ c.relationship_subtype = NULL
       \/ c.relationship_subtype \in SchemaSubtypes(c.relationship_category)
    /\ c.to_person_id # c.from_person_id

\* ---------------------------------------------------------------- database
\* 001_complete_initial_schema.upgrade: the four CHECK constraints on relationships
CheckConstraintsHold(row) ==
    /\ row.relationship_category \in
            {"family_line", "partner", "sibling", "extended_family"}
    /\ \/ row.generation_difference = None
       \/ row.generation_difference \in {Some(-1), Some(0), Some(1)}
    /\ \/ row.relationship_category # "family_line"
       \/ row.generation_difference # None
    /\ \/ row.relationship_category = "family_line"
       \/ row.generation_difference = None

\* a flush of `row` commits unless the database carries the constraints and one fails
DbAccepts(row) == check_constraints => CheckConstraintsHold(row)

\* Relationship(**relationship_data.dict()) with a fresh primary key
NewRow(id, c) ==
    [id |-> id,
     from_person_id |-> c.from_person_id,
     to_person_id |-> c.to_person_id,
     relationship_category |-> c.relationship_category,
     relationship_subtype |-> c.relationship_subtype,
     generation_difference |-> c.generation_difference,
     is_active |-> c.is_active,
     start_date |-> c.start_date,
     end_date |-> c.end_date,
     notes |-> c.notes]

\* rows selected by (from_person_id, to_person_id, relationship_category)
Matching(store, f, t, category) ==
    { r \in store : /\ r.from_person_id = f
                    /\ r.to_person_id = t
                    /\ r.relationship_category = category }

\* outcome record of a service call
Outcome(op, status, detail, id, request) ==
    [op |-> op, status |-> status, detail |-> detail, id |-> id, request |-> request]

\* stands for "no RelationshipCreate payload" in the outcome of the other calls
NoRequest == Candidate(<<0, 0>>, "none", NULL, None, DefaultDetail)

NoCall == Outcome("none", 0, "none", 0, NoRequest)

\* result of a query: what was asked (p1, p2, max_depth / tree / request) and what
\* came back (status; ok = relationship_found or valid; path; proposals; message;
\* persons, for the queries that return Person rows)
Answer(op, args, status, ok, path, proposals, message) ==
    [op |-> op, p1 |-> args.p1, p2 |-> args.p2, max_depth |-> args.max_depth,
     tree |-> args.tree, request |-> args.request,
     status |-> status, ok |-> ok, path |-> path, proposals |-> proposals,
     message |-> message, persons |-> {}]

NoArgs == [p1 |-> 0, p2 |-> 0, max_depth |-> 0, tree |-> "none", request |-> NoRequest]

NoAnswer == Answer("none", NoArgs, 0, FALSE, <<>>, {}, "none")

\* Person.birth_date / death_date: Optional[date], a date is <<year, month, day>>
PersonDates(birth_date, death_date) ==
    [birth_date |-> birth_date, death_date |-> death_date]

NoDates == PersonDates(None, None)

\* a calculate_person_age call: as_of_date as passed, the date taken for it,
\* and the age returned (Optional[int])
AgeCall(op, person_id, as_of_date, end_of, result) ==
    [op |-> op, person_id |-> person_id, as_of_date |-> as_of_date, end_of |-> end_of,
     result |-> result]

NoAge == AgeCall("none", 0, None, None, None)

\* values of document fields: a missing key, Python None, a plain value, a datetime
Absent == [kind |-> "absent", n |-> 0]
PyNone == [kind |-> "None", n |-> 0]
Val(n) == [kind |-> "value", n |-> n]
Time(n) == [kind |-> "datetime", n |-> n]

\* the keys of the Dict[str, Any] payloads and documents
Fields == {"name", "value", "id", "createdAt", "updatedAt"}

\* the dict with the given keys
Dict(name, value, id, createdAt, updatedAt) ==
    [f \in Fields |->
        CASE f = "name" -> name
          [] f = "value" -> value
          [] f = "id" -> id
          [] f = "createdAt" -> createdAt
          [] f = "updatedAt" -> updatedAt]

EmptyDict == Dict(Absent, Absent, Absent, Absent, Absent)

\* how a BaseRepository call ended: the exception raised ("none" when it returned),
\* what it returned ("None", "True", "document", or "raised") and the document
Reply(op, doc_id, data, error, returned, document) ==
    [op |-> op, doc_id |-> doc_id, data |-> data, error |-> error,
     returned |-> returned, document |-> document]

NoReply == Reply("none", 0, EmptyDict, "none", "None", EmptyDict)

\* no repository call has been made
RepositoryUnused ==
    /\ awaitable = FALSE
    /\ docs = [i \in {} |-> EmptyDict]
    /\ clock = 0
    /\ reply = NoReply

\* a create_relationship coroutine: `pc` is the await it is suspended at
Call(pc, request, id, status, detail) ==
    [pc |-> pc, request |-> request, id |-> id, status |-> status, detail |-> detail]

Idle == Call("idle", NoRequest, 0, 0, "none")

\* the coroutine has returned or raised
Done(call, status, detail) == Call("done", call.request, call.id, status, detail)

\* ---------------------------------------------------------------- service
\* _validate_relationship_people without the check from_person_id == to_person_id
ValidatePeopleNoSelfCheck(f, t) ==
    IF people[f] = NULL \/ people[t] = NULL THEN "person_not_found"
    ELSE IF people[f] # people[t] THEN "cross_tree"
    ELSE "ok"

\* _validate_relationship_people without the comparison of the family_tree_ids
ValidatePeopleNoTreeCheck(f, t) ==
    IF f = t THEN "self"
    ELSE IF people[f] = NULL \/ people[t] = NULL THEN "person_not_found"
    ELSE "ok"

\* RelationshipService._validate_relationship_people
ValidatePeople(f, t) ==
    IF f = t THEN "self"
    ELSE IF people[f] = NULL \/ people[t] = NULL THEN "person_not_found"
    ELSE IF people[f] # people[t] THEN "cross_tree"
    ELSE "ok"

\* _check_duplicate_relationship with from_person_id and to_person_id swapped in
\* the query
CheckDuplicateReversed(store, f, t, category) ==
    LET n == Cardinality(Matching(store, t, f, category))
    IN  IF n = 0 THEN "ok" ELSE IF n = 1 THEN "duplicate" ELSE "multiple_rows"

\* RelationshipService._check_duplicate_relationship (raise_error = True);
\* scalar_one_or_none raises MultipleResultsFound on two matching rows
CheckDuplicate(store, f, t, category) ==
    LET n == Cardinality(Matching(store, f, t, category))
    IN  IF n = 0 THEN "ok" ELSE IF n = 1 THEN "duplicate" ELSE "multiple_rows"

\* _validate_relationship_rules with abs(generation_diff) > 1 in place of != 1
ValidateRulesAtMostOne(c) ==
    LET category == c.relationship_category
        subtype == c.relationship_subtype
        generation_diff == c.generation_difference
    IN  IF /\ category \in {"family_line", "partner", "sibling", "extended_family"}
           /\ subtype \notin ServiceSubtypes(category)
        THEN "invalid_subtype"
        ELSE IF category = "family_line"
        THEN IF generation_diff = None THEN "generation_required"
             ELSE IF \E n \in generation_diff : Abs(n) > 1 THEN "generation_rule"
             ELSE "ok"
        ELSE IF category \in {"partner", "sibling"}
        THEN IF generation_diff # None /\ generation_diff # Some(0)
             THEN "generation_rule"
             ELSE "ok"
        ELSE "ok"

\* RelationshipService._validate_relationship_rules
ValidateRules(c) ==
    LET category == c.relationship_category
        subtype == c.relationship_subtype
        generation_diff == c.generation_difference
    IN  IF /\ category \in {"family_line", "partner", "sibling", "extended_family"}
           /\ subtype \notin ServiceSubtypes(category)
        THEN "invalid_subtype"
        ELSE IF category = "family_line"
        THEN IF generation_diff = None THEN "generation_required"
             ELSE IF \E n \in generation_diff : Abs(n) # 1 THEN "generation_rule"
             ELSE "ok"
        ELSE IF category \in {"partner", "sibling"}
        THEN IF generation_diff # None /\ generation_diff # Some(0)
             THEN "generation_rule"
             ELSE "ok"
        ELSE "ok"

\* the row _create_reciprocal_relationship builds for `row`
ReciprocalRow(id, row) ==
    [id |-> id,
     from_person_id |-> row.to_person_id,
     to_person_id |-> row.from_person_id,
     relationship_category |-> row.relationship_category,
     relationship_subtype |-> row.relationship_subtype,
     generation_difference |-> Some(0),
     is_active |-> row.is_active,
     start_date |-> row.start_date,
     end_date |-> row.end_date,
     notes |-> row.notes]

\* RelationshipService._create_reciprocal_relationship on the committed `store`:
\* [detail, store] ; "ok" with the store it leaves, or the exception it raises
CreateReciprocal(store, row, id) ==
    IF row.relationship_category \notin {"partner", "sibling"}
    THEN [detail |-> "ok", store |-> store]
    ELSE LET n == Cardinality(Matching(store, row.to_person_id, row.from_person_id,
                                       row.relationship_category))
         IN  IF n > 1 THEN [detail |-> "multiple_rows", store |-> store]
             ELSE IF n = 1 THEN [detail |-> "ok", store |-> store]
             ELSE IF DbAccepts(ReciprocalRow(id, row))
             THEN [detail |-> "ok", store |-> store \cup {ReciprocalRow(id, row)}]
             ELSE [detail |-> "integrity_error", store |-> store]

\* HTTP status of an error detail: HTTPException codes, 500 for a caught Exception
StatusOf(detail) ==
    CASE detail \in {"self", "cross_tree", "duplicate", "invalid_subtype",
                     "generation_required", "generation_rule", "bad_dates"} -> 400
      [] detail \in {"person_not_found", "relationship_not_found",
                     "family_tree_not_found"} -> 404
      [] OTHER -> 500

\* primary key of a new row (uuid4: an id no stored row has); the smallest unused
\* number, so the ids of deleted rows are free again
FreshId(store) ==
    LET free == { i \in 1..(Cardinality(store) + 1) : \A r \in store : r.id # i }
    IN  CHOOSE i \in free : \A j \in free : i <= j

\* RelationshipService.create_relationship: [detail, id, store]
CreateResult(c) ==
    LET f == c.from_person_id
        t == c.to_person_id
        people_check == ValidatePeople(f, t)
        dup_check == CheckDuplicate(rels, f, t, c.relationship_category)
        rules_check == ValidateRules(c)
        db_relationship == NewRow(FreshId(rels), c)
        committed == rels \cup {db_relationship}
        reciprocal == CreateReciprocal(committed, db_relationship, FreshId(committed))
    IN  IF people_check # "ok" THEN [detail |-> people_check, id |-> 0, store |-> rels]
        ELSE IF dup_check # "ok" THEN [detail |-> dup_check, id |-> 0, store |-> rels]
        ELSE IF rules_check # "ok" THEN [detail |-> rules_check, id |-> 0, store |-> rels]
        ELSE IF ~DbAccepts(db_relationship)
        THEN [detail |-> "integrity_error", id |-> 0, store |-> rels]
        ELSE IF reciprocal.detail # "ok"
        THEN [detail |-> reciprocal.detail, id |-> 0, store |-> reciprocal.store]
        ELSE [detail |-> "ok", id |-> db_relationship.id, store |-> reciprocal.store]

\* RelationshipService.update_relationship on an existing row: [detail, row]
UpdateResult(relationship, patch) ==
    LET has(field) == field \in patch.fields
        temp_data ==
            [from_person_id |-> relationship.from_person_id,
             to_person_id |-> relationship.to_person_id,
             relationship_category |->
                IF has("relationship_category") THEN patch.relationship_category
                ELSE relationship.relationship_category,
             relationship_subtype |->
                IF has("relationship_subtype") THEN patch.relationship_subtype
                ELSE relationship.relationship_subtype,
             generation_difference |->
                IF has("generation_difference") THEN patch.generation_difference
                ELSE relationship.generation_difference]
        updated ==
            [relationship EXCEPT
                !.relationship_category =
                    IF has("relationship_category") THEN patch.relationship_category
                    ELSE @,
                !.relationship_subtype =
                    IF has("relationship_subtype") THEN patch.relationship_subtype
                    ELSE @,
                !.generation_difference =
                    IF has("generation_difference") THEN patch.generation_difference
                    ELSE @]
        validates == has("relationship_category") \/ has("relationship_subtype")
    IN  IF validates /\ ~RelationshipCreateValid(temp_data, TRUE)
        THEN [detail |-> "validation_error", row |-> relationship]
        ELSE IF validates /\ ValidateRules(temp_data) # "ok"
        THEN [detail |-> ValidateRules(temp_data), row |-> relationship]
        ELSE IF ~DbAccepts(updated)
        THEN [detail |-> "integrity_error", row |-> relationship]
        ELSE [detail |-> "ok", row |-> updated]

UpdateRelationship(relationship_id, patch) ==
    LET found == { r \in rels : r.id = relationship_id }
    IN  /\ IF found = {}
           THEN /\ last' = Outcome("update_relationship", 404,
                                   "relationship_not_found", 0, NoRequest)
                /\ UNCHANGED rels
           ELSE LET relationship == CHOOSE r \in found : TRUE
                    res == UpdateResult(relationship, patch)
                IN  /\ rels' = (rels \ {relationship}) \cup {res.row}
                    /\ last' = Outcome("update_relationship",
                                       IF res.detail = "ok" THEN 200
                                       ELSE StatusOf(res.detail),
                                       res.detail, 0, NoRequest)
        /\ answer' = NoAnswer
        /\ UNCHANGED <<check_constraints, people, calls, seen, other>>

\* RelationshipService._delete_reciprocal_relationship: [detail, rows marked deleted]
DeleteReciprocal(store, relationship) ==
    IF relationship.relationship_category \notin {"partner", "sibling"}
    THEN [detail |-> "ok", deleted |-> {}]
    ELSE LET reciprocal == Matching(store, relationship.to_person_id,
                                    relationship.from_person_id,
                                    relationship.relationship_category)
         IN  IF Cardinality(reciprocal) > 1
             THEN [detail |-> "multiple_rows", deleted |-> {}]
             ELSE [detail |-> "ok", deleted |-> reciprocal]

\* RelationshipService.delete_relationship
DeleteRelationship(relationship_id) ==
    LET found == { r \in rels : r.id = relationship_id }
    IN  /\ IF found = {}
           THEN /\ last' = Outcome("delete_relationship", 404,
                                   "relationship_not_found", 0, NoRequest)
                /\ UNCHANGED rels
           ELSE LET relationship == CHOOSE r \in found : TRUE
                    res == DeleteReciprocal(rels, relationship)
                IN  IF res.detail # "ok"
                    THEN /\ last' = Outcome("delete_relationship", 500, res.detail, 0, NoRequest)
                         /\ UNCHANGED rels
                    ELSE /\ rels' = (rels \ res.deleted) \ {relationship}
                         /\ last' = Outcome("delete_relationship", 204, "ok", 0, NoRequest)
        /\ answer' = NoAnswer
        /\ UNCHANGED <<check_constraints, people, calls, seen, other>>

\* RelationshipService.create_relationship as one call
CreateRelationship(c) ==
    LET res == CreateResult(c)
    IN  /\ rels' = res.store
        /\ last' = Outcome("create_relationship",
                           IF res.detail = "ok" THEN 201 ELSE StatusOf(res.detail),
                           res.detail, res.id, c)
        /\ answer' = NoAnswer
        /\ UNCHANGED <<check_constraints, people, calls, seen, other>>

\* the call leaves at most n rows: the bound on the stores a specification explores
Fits(c, n) == Cardinality(CreateResult(c).store) <= n

\* ---------------------------------------------------------------- init
Init ==
    /\ check_constraints \in BOOLEAN
    /\ people = [p \in PersonIds |-> IF p <= 2 THEN "t1" ELSE "t2"]
    /\ rels = {}
    /\ last = NoCall
    /\ calls = [k \in CallIds |-> Idle]
    /\ seen = {}
    /\ answer = NoAnswer
    /\ dates = [p \in PersonIds |-> NoDates]
    /\ age = NoAge
    /\ RepositoryUnused

\* PersonService.delete_person: db.delete(person) cascades over relationships_from
\* (cascade="all, delete-orphan"); rows of relationships_to get to_person_id = NULL,
\* which the NOT NULL column refuses
DeletePerson(p) ==
    LET outgoing == { r \in rels : r.from_person_id = p }
        incoming == { r \in rels : r.to_person_id = p /\ r.from_person_id # p }
    IN  /\ IF people[p] = NULL
           THEN /\ last' = Outcome("delete_person", 404, "person_not_found", 0, NoRequest)
                /\ UNCHANGED <<people, rels>>
           ELSE IF incoming # {}
           THEN /\ last' = Outcome("delete_person", 500, "integrity_error", 0, NoRequest)
                /\ UNCHANGED <<people, rels>>
           ELSE /\ last' = Outcome("delete_person", 204, "ok", 0, NoRequest)
                /\ people' = [people EXCEPT ![p] = NULL]
                /\ rels' = rels \ outgoing
        /\ answer' = NoAnswer
        /\ UNCHANGED <<check_constraints, calls, seen, other>>

Next ==
    \/ \E p \in PersonIds : DeletePerson(p)
    \/ \E c \in Requests : Fits(c, MaxRelId) /\ CreateRelationship(c)
    \/ \E id \in RelIds, patch \in PatchInputs : UpdateRelationship(id, patch)
    \/ \E id \in RelIds : DeleteRelationship(id)

Spec == Init /\ [][Next]_vars

\* ---------------------------------------------------------------- queries
\* the orders in which a SELECT without ORDER BY may return the rows of `store`
Orders(store) ==
    { f \in [1..Cardinality(store) -> store] :
        \A i, j \in 1..Cardinality(store) : f[i] = f[j] => i = j }

\* get_family_tree_relationships: the rows whose from_person is in the tree
TreeRows(tree) == { r \in rels : people[r.from_person_id] = tree }

\* the graph building with the reverse direction added for every category
RECURSIVE EdgesUndirected(_)
EdgesUndirected(rows) ==
    IF rows = <<>> THEN <<>>
    ELSE LET rel == Head(rows)
             forward == <<[a |-> rel.from_person_id, b |-> rel.to_person_id, rel |-> rel]>>
             backward == <<[a |-> rel.to_person_id, b |-> rel.from_person_id, rel |-> rel]>>
         IN  forward \o backward \o EdgesUndirected(Tail(rows))

\* find_relationship_path, graph building: the (node, neighbour, row) entries in
\* the order the loop appends them to graph[...] and writes relationship_map[...]
RECURSIVE Edges(_)
Edges(rows) ==
    IF rows = <<>> THEN <<>>
    ELSE LET rel == Head(rows)
             forward == <<[a |-> rel.from_person_id, b |-> rel.to_person_id, rel |-> rel]>>
             backward == <<[a |-> rel.to_person_id, b |-> rel.from_person_id, rel |-> rel]>>
         IN  (IF rel.relationship_category \in {"partner", "sibling"}
              THEN forward \o backward ELSE forward) \o Edges(Tail(rows))

\* graph.get(current, [])
Neighbours(edges, current) ==
    LET at(e) == e.a = current
        sel == SelectSeq(edges, at)
    IN  [i \in 1..Len(sel) |-> sel[i].b]

\* relationship_map.get((current, neighbor)): the last entry written for the key
RelationshipMap(edges, current, neighbor) ==
    LET hits == { i \in 1..Len(edges) : edges[i].a = current /\ edges[i].b = neighbor }
    IN  edges[CHOOSE i \in hits : \A j \in hits : j <= i].rel

\* _find_shortest_path, the for loop over the neighbours of `current`:
\* [queue, visited] after it
RECURSIVE Expand(_, _, _, _, _, _)
Expand(edges, neighbours, current, path, queue, visited) ==
    IF neighbours = <<>> THEN [queue |-> queue, visited |-> visited]
    ELSE LET neighbor == Head(neighbours)
         IN  IF neighbor \in visited
             THEN Expand(edges, Tail(neighbours), current, path, queue, visited)
             ELSE Expand(edges, Tail(neighbours), current, path,
                         Append(queue, [node |-> neighbor,
                                        path |-> Append(path, RelationshipMap(
                                                    edges, current, neighbor))]),
                         visited \cup {neighbor})

\* _find_shortest_path, the while loop without the test len(path) >= max_depth
RECURSIVE BfsNoDepthLimit(_, _, _, _, _)
BfsNoDepthLimit(edges, queue, visited, end, max_depth) ==
    IF queue = <<>> THEN <<>>
    ELSE LET current == Head(queue).node
             path == Head(queue).path
         IN  IF current = end THEN path
             ELSE LET next == Expand(edges, Neighbours(edges, current), current,
                                     path, Tail(queue), visited)
                  IN  BfsNoDepthLimit(edges, next.queue, next.visited, end, max_depth)

\* _find_shortest_path, the while loop
RECURSIVE Bfs(_, _, _, _, _)
Bfs(edges, queue, visited, end, max_depth) ==
    IF queue = <<>> THEN <<>>
    ELSE LET current == Head(queue).node
             path == Head(queue).path
         IN  IF Len(path) >= max_depth
             THEN Bfs(edges, Tail(queue), visited, end, max_depth)
             ELSE IF current = end THEN path
             ELSE LET next == Expand(edges, Neighbours(edges, current), current,
                                     path, Tail(queue), visited)
                  IN  Bfs(edges, next.queue, next.visited, end, max_depth)

\* RelationshipService._find_shortest_path
FindShortestPath(edges, start, end, max_depth) ==
    LET graph == { edges[i].a : i \in 1..Len(edges) }
                    \cup { edges[i].b : i \in 1..Len(edges) }
    IN  IF start \notin graph \/ end \notin graph THEN <<>>
        ELSE Bfs(edges, <<[node |-> start, path |-> <<>>]>>, {start}, end, max_depth)

\* RelationshipService.find_relationship_path with the rows returned in order
\* `rows`: [status, found, path]
FindPathResult(rows, person1_id, person2_id, max_depth) ==
    IF people[person1_id] = NULL \/ people[person2_id] = NULL
    THEN [status |-> 404, found |-> FALSE, path |-> <<>>]
    ELSE IF person1_id = person2_id
    THEN [status |-> 200, found |-> TRUE, path |-> <<>>]
    ELSE LET path == FindShortestPath(Edges(rows), person1_id, person2_id, max_depth)
         IN  [status |-> 200, found |-> Len(path) > 0, path |-> path]

\* every result find_relationship_path can return in the current state
FindPathResults(person1_id, person2_id, max_depth) ==
    IF people[person1_id] = NULL
    THEN { FindPathResult(<<>>, person1_id, person2_id, max_depth) }
    ELSE { FindPathResult(rows, person1_id, person2_id, max_depth) :
             rows \in Orders(TreeRows(people[person1_id])) }

FindRelationshipPath(person1_id, person2_id, max_depth) ==
    /\ \E res \in FindPathResults(person1_id, person2_id, max_depth) :
            answer' = Answer("find_relationship_path",
                             [NoArgs EXCEPT !.p1 = person1_id, !.p2 = person2_id,
                                            !.max_depth = max_depth],
                             res.status, res.found, res.path, {},
                             IF res.status = 200 THEN "ok" ELSE "person_not_found")
    /\ last' = NoCall
    /\ UNCHANGED <<check_constraints, people, rels, calls, seen, other>>

\* infer_missing_relationships: parent_child_map[parent_id], the children in the
\* order of the family_line rows with generation_difference -1
Children(rows, parent_id) ==
    LET parent_to_child(rel) == /\ rel.relationship_category = "family_line"
                                /\ rel.generation_difference = Some(-1)
                                /\ rel.from_person_id = parent_id
        sel == SelectSeq(rows, parent_to_child)
    IN  [i \in 1..Len(sel) |-> sel[i].to_person_id]

\* an InferredRelationship (confidence is "high" for both kinds)
Proposal(type, person1_id, person2_id) ==
    [type |-> type, person1_id |-> person1_id, person2_id |-> person2_id,
     confidence |-> "high"]

\* the (child1, child2) pairs of the sibling loop: children[i] with children[i+1:]
SiblingPairsChecked(rows) ==
    UNION { { <<Children(rows, parent_id)[ij[1]], Children(rows, parent_id)[ij[2]]>> :
                ij \in { x \in (1..Len(Children(rows, parent_id)))
                                \X (1..Len(Children(rows, parent_id))) : x[1] < x[2] } } :
            parent_id \in PersonIds }

\* the (grandparent_id, child_id) pairs of the grandparent loop: for every key of
\* parent_child_map, `grandparents` is parent_child_map[parent_id] itself
GrandparentPairsChecked(rows) ==
    UNION { { <<Children(rows, parent_id)[i], Children(rows, parent_id)[j]>> :
                i \in 1..Len(Children(rows, parent_id)),
                j \in 1..Len(Children(rows, parent_id)) } :
            parent_id \in PersonIds }

\* infer_missing_relationships without the _relationship_exists tests
InferResultNoExistenceCheck(rows) ==
    [status |-> 200,
     proposals |->
        { Proposal("sibling", pr[1], pr[2]) : pr \in SiblingPairsChecked(rows) }
        \cup { Proposal("grandparent", pr[1], pr[2]) :
                    pr \in GrandparentPairsChecked(rows) }]

\* RelationshipService.infer_missing_relationships with the rows returned in order
\* `rows`: [status, proposals]; _relationship_exists raises on two matching rows
InferResult(rows) ==
    LET siblings == SiblingPairsChecked(rows)
        grandparents == GrandparentPairsChecked(rows)
        raises == \/ \E pr \in siblings :
                        Cardinality(Matching(rels, pr[1], pr[2], "sibling")) > 1
                  \/ \E pr \in grandparents :
                        Cardinality(Matching(rels, pr[1], pr[2], "family_line")) > 1
    IN  IF raises THEN [status |-> 500, proposals |-> {}]
        ELSE [status |-> 200,
              proposals |->
                { Proposal("sibling", pr[1], pr[2]) :
                    pr \in { q \in siblings : Matching(rels, q[1], q[2], "sibling") = {} } }
                \cup
                { Proposal("grandparent", pr[1], pr[2]) :
                    pr \in { q \in grandparents :
                                Matching(rels, q[1], q[2], "family_line") = {} } }]

\* every result infer_missing_relationships can return in the current state
InferResults(tree) == { InferResult(rows) : rows \in Orders(TreeRows(tree)) }

\* infer_missing_relationships that also stores what it infers: a sibling row for
\* every sibling proposal
InferMissingAndStore(tree) ==
    /\ \E res \in InferResults(tree) :
            /\ answer' = Answer("infer_missing_relationships",
                                [NoArgs EXCEPT !.tree = tree],
                                res.status, res.status = 200, <<>>, res.proposals,
                                IF res.status = 200 THEN "ok" ELSE "multiple_rows")
            /\ rels' = rels \cup
                    { NewRow(FreshId(rels),
                             Candidate(<<pp.person1_id, pp.person2_id>>, "sibling",
                                       "full_sibling", None, DefaultDetail)) :
                        pp \in { q \in res.proposals : q.type = "sibling" } }
    /\ last' = NoCall
    /\ UNCHANGED <<check_constraints, people, calls, seen, other>>

InferMissingRelationships(tree) ==
    /\ \E res \in InferResults(tree) :
            answer' = Answer("infer_missing_relationships", [NoArgs EXCEPT !.tree = tree],
                             res.status, res.status = 200, <<>>, res.proposals,
                             IF res.status = 200 THEN "ok" ELSE "multiple_rows")
    /\ last' = NoCall
    /\ UNCHANGED <<check_constraints, people, rels, calls, seen, other>>

\* RelationshipService.validate_relationship: [valid, message]
ValidateResult(c) ==
    LET people_check == ValidatePeople(c.from_person_id, c.to_person_id)
        rules_check == ValidateRules(c)
        duplicate == CheckDuplicate(rels, c.from_person_id, c.to_person_id,
                                    c.relationship_category)
    IN  IF people_check # "ok" THEN [valid |-> FALSE, message |-> people_check]
        ELSE IF rules_check # "ok" THEN [valid |-> FALSE, message |-> rules_check]
        ELSE IF duplicate # "ok" THEN [valid |-> FALSE, message |-> duplicate]
        ELSE [valid |-> TRUE, message |-> "ok"]

\* validate_relationship that validates by running create_relationship
ValidateRelationshipByCreating(c) ==
    /\ answer' = Answer("validate_relationship", [NoArgs EXCEPT !.request = c],
                        200, CreateResult(c).detail = "ok", <<>>, {},
                        CreateResult(c).detail)
    /\ rels' = CreateResult(c).store
    /\ last' = NoCall
    /\ UNCHANGED <<check_constraints, people, calls, seen, other>>

ValidateRelationship(c) ==
    /\ answer' = Answer("validate_relationship", [NoArgs EXCEPT !.request = c],
                        200, ValidateResult(c).valid, <<>>, {},
                        ValidateResult(c).message)
    /\ last' = NoCall
    /\ UNCHANGED <<check_constraints, people, rels, calls, seen, other>>

\* the queries over one tree of MaxPeople persons: the store is built by
\* create_relationship, the queries read it
QueryRequests ==
    { Candidate(pr, "family_line", "biological_parent", Some(-1), DefaultDetail) :
        pr \in {<<1, 2>>, <<2, 3>>, <<1, 3>>} }
    \cup { Candidate(<<2, 3>>, "sibling", "full_sibling", None, DefaultDetail) }

\* the payloads of validate_relationship: those of the creates and some that fail
ValidateInputs ==
    QueryRequests
    \cup { Candidate(<<1, 1>>, "sibling", "full_sibling", None, DefaultDetail),
           Candidate(<<1, 2>>, "family_line", "biological_parent", Some(0), DefaultDetail),
           Candidate(<<1, 2>>, "partner", NULL, None, DefaultDetail) }

\* (person1_id, person2_id) and max_depth of find_relationship_path
PathInputs == {<<1, 3>>, <<3, 1>>, <<2, 3>>, <<3, 2>>, <<1, 1>>}
DepthInputs == {1, 2, 5}

InitQuery ==
    /\ check_constraints \in BOOLEAN
    /\ people = [p \in PersonIds |-> "t1"]
    /\ rels = {}
    /\ last = NoCall
    /\ calls = [k \in CallIds |-> Idle]
    /\ seen = {}
    /\ answer = NoAnswer
    /\ dates = [p \in PersonIds |-> NoDates]
    /\ age = NoAge
    /\ RepositoryUnused

NextQuery ==
    \/ \E c \in QueryRequests : Fits(c, MaxQueryRels) /\ CreateRelationship(c)
    \/ \E pr \in PathInputs, max_depth \in DepthInputs :
            FindRelationshipPath(pr[1], pr[2], max_depth)
    \/ \E tree \in {"t1", "t2"} : InferMissingRelationships(tree)
    \/ \E c \in ValidateInputs : ValidateRelationship(c)

SpecQuery == InitQuery /\ [][NextQuery]_vars

\* ---------------------------------------------------------------- kin
\* PersonService.get_person_ancestors: [status, persons]; the Person rows joined on
\* from_person_id to the family_line rows that lead to person_id with a negative
\* generation_difference (the list returned, as the set of its persons)
AncestorsResult(person_id, generations) ==
    IF people[person_id] = NULL THEN [status |-> 404, persons |-> {}]
    ELSE [status |-> 200,
          persons |->
            { r.from_person_id : r \in
                { r \in rels :
                    /\ people[r.from_person_id] # NULL
                    /\ r.to_person_id = person_id
                    /\ r.relationship_category = "family_line"
                    /\ \E n \in r.generation_difference :
                            /\ n < 0
                            /\ \A g \in generations : g # 0 => n >= -g } }]

\* PersonService.get_person_descendants: [status, persons]; the Person rows joined
\* on to_person_id to the family_line rows that leave person_id with a positive
\* generation_difference
DescendantsResult(person_id, generations) ==
    IF people[person_id] = NULL THEN [status |-> 404, persons |-> {}]
    ELSE [status |-> 200,
          persons |->
            { r.to_person_id : r \in
                { r \in rels :
                    /\ people[r.to_person_id] # NULL
                    /\ r.from_person_id = person_id
                    /\ r.relationship_category = "family_line"
                    /\ \E n \in r.generation_difference :
                            /\ n > 0
                            /\ \A g \in generations : g # 0 => n <= g } }]

GetPersonAncestors(person_id, generations) ==
    LET res == AncestorsResult(person_id, generations)
    IN  /\ answer' = [Answer("get_person_ancestors", [NoArgs EXCEPT !.p1 = person_id],
                              res.status, res.status = 200, <<>>, {},
                              IF res.status = 200 THEN "ok" ELSE "person_not_found")
                       EXCEPT !.persons = res.persons]
        /\ last' = NoCall
        /\ UNCHANGED <<check_constraints, people, rels, calls, seen, other>>

GetPersonDescendants(person_id, generations) ==
    LET res == DescendantsResult(person_id, generations)
    IN  /\ answer' = [Answer("get_person_descendants", [NoArgs EXCEPT !.p1 = person_id],
                              res.status, res.status = 200, <<>>, {},
                              IF res.status = 200 THEN "ok" ELSE "person_not_found")
                       EXCEPT !.persons = res.persons]
        /\ last' = NoCall
        /\ UNCHANGED <<check_constraints, people, rels, calls, seen, other>>

\* parent rows in both recordings: from is the parent (-1), from is the child (+1)
KinRequests ==
    { Candidate(pr, "family_line", "biological_parent", Some(g), DefaultDetail) :
        pr \in {<<1, 2>>, <<2, 1>>, <<2, 3>>}, g \in {-1, 1} }

\* the `generations` argument: omitted, or one generation
GenerationsInputs == {None, Some(1)}

NextKin ==
    \/ \E c \in KinRequests : Fits(c, MaxRelId) /\ CreateRelationship(c)
    \/ \E p \in PersonIds, generations \in GenerationsInputs :
            GetPersonAncestors(p, generations)
    \/ \E p \in PersonIds, generations \in GenerationsInputs :
            GetPersonDescendants(p, generations)

SpecKin == InitQuery /\ [][NextKin]_vars

\* ---------------------------------------------------------------- age
DateInputs ==
    { <<2000, 6, 15>>, <<2000, 2, 29>>, <<1999, 12, 31>>, <<2010, 6, 15>>,
      <<2020, 6, 14>>, <<2020, 6, 15>>, <<2020, 6, 16>>, <<2021, 2, 28>> }

\* date < date
Before(d, e) ==
    \/ d[1] < e[1]
    \/ d[1] = e[1] /\ d[2] < e[2]
    \/ d[1] = e[1] /\ d[2] = e[2] /\ d[3] < e[3]

\* calculate_person_age: end_date, the date the age is counted to
EndDate(death_date, as_of_date) ==
    IF death_date # None /\ \E d \in death_date : Before(d, as_of_date)
    THEN CHOOSE d \in death_date : TRUE
    ELSE as_of_date

\* PersonService.calculate_person_age from `if not person.birth_date` on, with the
\* test end_date.day <= person.birth_date.day
AgeResultOffByOne(birth_date, death_date, as_of_date) ==
    IF birth_date = None THEN None
    ELSE LET birth == CHOOSE d \in birth_date : TRUE
             end_date == EndDate(death_date, as_of_date)
             years == end_date[1] - birth[1]
         IN  IF \/ end_date[2] < birth[2]
                \/ end_date[2] = birth[2] /\ end_date[3] <= birth[3]
             THEN Some(years - 1)
             ELSE Some(years)

\* PersonService.calculate_person_age from `if not person.birth_date` on
AgeResult(birth_date, death_date, as_of_date) ==
    IF birth_date = None THEN None
    ELSE LET birth == CHOOSE d \in birth_date : TRUE
             end_date == EndDate(death_date, as_of_date)
             years == end_date[1] - birth[1]
         IN  IF \/ end_date[2] < birth[2]
                \/ end_date[2] = birth[2] /\ end_date[3] < birth[3]
             THEN Some(years - 1)
             ELSE Some(years)

\* PersonService.calculate_person_age(person_id, as_of_date); as_of_date None is
\* date.today(), any date
CalculatePersonAge(person_id, as_of_date) ==
    /\ people[person_id] # NULL
    /\ \E today \in DateInputs :
            LET as_of == IF as_of_date = None THEN today
                         ELSE CHOOSE d \in as_of_date : TRUE
            IN  age' = AgeCall("calculate_person_age", person_id, as_of_date, Some(as_of),
                               AgeResult(dates[person_id].birth_date,
                                         dates[person_id].death_date, as_of))
    /\ UNCHANGED <<check_constraints, people, rels, last, calls, seen, answer, dates, repository>>

InitAge ==
    /\ check_constraints \in BOOLEAN
    /\ people = [p \in PersonIds |-> "t1"]
    /\ rels = {}
    /\ last = NoCall
    /\ calls = [k \in CallIds |-> Idle]
    /\ seen = {}
    /\ answer = NoAnswer
    \* create_person and update_person refuse birth_date >= death_date
    /\ \E birth_date \in {None} \cup { Some(d) : d \in DateInputs } :
       \E death_date \in {None} \cup { Some(d) : d \in DateInputs } :
            /\ \A b \in birth_date : \A d \in death_date : Before(b, d)
            /\ dates = [p \in PersonIds |-> IF p = 1
                                             THEN PersonDates(birth_date, death_date)
                                             ELSE NoDates]
    /\ age = NoAge
    /\ RepositoryUnused

NextAge ==
    \E person_id \in PersonIds :
        \E as_of_date \in {None} \cup { Some(d) : d \in DateInputs } :
            CalculatePersonAge(person_id, as_of_date)

SpecAge == InitAge /\ [][NextAge]_vars

\* ---------------------------------------------------------------- persons
\* the family trees that exist
FamilyTrees == {"t1", "t2"}

\* birth_date / death_date of PersonCreate and PersonUpdate payloads
PersonDateInputs ==
    {None} \cup { Some(d) : d \in {<<2000, 6, 15>>, <<2010, 6, 15>>} }

\* PersonUpdate payloads: `fields` are the keys that were set
\* (update_data.dict(exclude_unset=True)); the other entries are not read
PersonPatch(fields, birth_date, death_date) ==
    [fields |-> fields, birth_date |-> birth_date, death_date |-> death_date]

PersonPatchInputs ==
    { PersonPatch({}, None, None) }
    \cup { PersonPatch({"birth_date"}, b, None) : b \in PersonDateInputs }
    \cup { PersonPatch({"death_date"}, None, d) : d \in PersonDateInputs }
    \cup { PersonPatch({"birth_date", "death_date"}, b, d) :
                b \in PersonDateInputs, d \in PersonDateInputs }

\* `birth_date and death_date and birth_date >= death_date`
BadDates(birth_date, death_date) ==
    \E b \in birth_date : \E d \in death_date : ~Before(b, d)

\* PersonService.create_person, the checks before the insert
CreatePersonResult(tree, birth_date, death_date) ==
    IF tree \notin FamilyTrees THEN "family_tree_not_found"
    ELSE IF BadDates(birth_date, death_date) THEN "bad_dates"
    ELSE "ok"

\* PersonService.create_person: a new row (uuid4: an id no stored person has; the
\* smallest unused one)
CreatePerson(tree, birth_date, death_date) ==
    /\ \E p \in PersonIds : people[p] = NULL
    /\ LET id == CHOOSE p \in PersonIds :
                    people[p] = NULL /\ \A q \in PersonIds : people[q] = NULL => p <= q
           detail == CreatePersonResult(tree, birth_date, death_date)
       IN  IF detail # "ok"
           THEN /\ last' = Outcome("create_person", StatusOf(detail), detail, 0,
                                   NoRequest)
                /\ UNCHANGED <<people, dates>>
           ELSE /\ last' = Outcome("create_person", 201, "ok", id, NoRequest)
                /\ people' = [people EXCEPT ![id] = tree]
                /\ dates' = [dates EXCEPT ![id] = PersonDates(birth_date, death_date)]
    /\ answer' = NoAnswer
    /\ UNCHANGED <<check_constraints, rels, calls, seen, age, repository>>

\* update_person that validates the dates of the patch alone
UpdateDatesResultPatchOnly(person, patch) ==
    LET has(field) == field \in patch.fields
        birth_date == IF has("birth_date") THEN patch.birth_date ELSE None
        death_date == IF has("death_date") THEN patch.death_date ELSE None
    IN  IF BadDates(birth_date, death_date)
        THEN [detail |-> "bad_dates", dates |-> person]
        ELSE [detail |-> "ok",
              dates |-> PersonDates(
                  IF has("birth_date") THEN patch.birth_date ELSE person.birth_date,
                  IF has("death_date") THEN patch.death_date ELSE person.death_date)]

\* PersonService.update_person on an existing person: [detail, dates]
UpdateDatesResult(person, patch) ==
    LET has(field) == field \in patch.fields
        birth_date == IF has("birth_date") THEN patch.birth_date ELSE person.birth_date
        death_date == IF has("death_date") THEN patch.death_date ELSE person.death_date
    IN  IF BadDates(birth_date, death_date)
        THEN [detail |-> "bad_dates", dates |-> person]
        ELSE [detail |-> "ok", dates |-> PersonDates(birth_date, death_date)]

\* PersonService.update_person
UpdatePerson(person_id, patch) ==
    /\ IF people[person_id] = NULL
       THEN /\ last' = Outcome("update_person", 404, "person_not_found", 0, NoRequest)
            /\ UNCHANGED dates
       ELSE LET res == UpdateDatesResult(dates[person_id], patch)
            IN  /\ last' = Outcome("update_person",
                                   IF res.detail = "ok" THEN 200
                                   ELSE StatusOf(res.detail),
                                   res.detail, person_id, NoRequest)
                /\ dates' = [dates EXCEPT ![person_id] = res.dates]
    /\ answer' = NoAnswer
    /\ UNCHANGED <<check_constraints, people, rels, calls, seen, age, repository>>

\* no person stored yet
InitPerson ==
    /\ check_constraints = FALSE
    /\ people = [p \in PersonIds |-> NULL]
    /\ rels = {}
    /\ last = NoCall
    /\ calls = [k \in CallIds |-> Idle]
    /\ seen = {}
    /\ answer = NoAnswer
    /\ dates = [p \in PersonIds |-> NoDates]
    /\ age = NoAge
    /\ RepositoryUnused

NextPerson ==
    \/ \E tree \in {"t1", "t9"}, b \in PersonDateInputs, d \in PersonDateInputs :
            CreatePerson(tree, b, d)
    \/ \E p \in PersonIds, patch \in PersonPatchInputs : UpdatePerson(p, patch)

SpecPerson == InitPerson /\ [][NextPerson]_vars

\* ---------------------------------------------------------------- repository
DocIds == 1..MaxDocs

\* payloads of create and update
DataInputs ==
    { EmptyDict,
      Dict(Val(1), Val(42), Absent, Absent, Absent),
      Dict(PyNone, Val(84), Absent, Absent, Absent),
      Dict(Val(2), Absent, Absent, Time(9), Absent),
      Dict(Absent, PyNone, Val(9), Absent, Time(9)) }

\* BaseRepository._add_timestamps
AddTimestamps(data, is_update, current_time) ==
    [f \in Fields |->
        IF f = "updatedAt" \/ (f = "createdAt" /\ ~is_update)
        THEN Time(current_time)
        ELSE data[f]]

\* BaseRepository._validate_create_data: [error, data]
ValidateCreateData(data) ==
    IF data = EmptyDict
    THEN [error |-> "ValidationError", data |-> data]
    ELSE [error |-> "none",
          data |-> [f \in Fields |-> IF data[f] = PyNone THEN Absent ELSE data[f]]]

\* BaseRepository._validate_update_data with excluded_fields = {}
ValidateUpdateDataKeepingSystemFields(data) ==
    IF data = EmptyDict
    THEN [error |-> "ValidationError", data |-> data]
    ELSE [error |-> "none",
          data |-> [f \in Fields |-> IF data[f] = PyNone THEN Absent ELSE data[f]]]

\* BaseRepository._validate_update_data: [error, data]
ValidateUpdateData(data) ==
    IF data = EmptyDict
    THEN [error |-> "ValidationError", data |-> data]
    ELSE [error |-> "none",
          data |-> [f \in Fields |->
                        IF data[f] = PyNone \/ f \in {"id", "createdAt", "updatedAt"}
                        THEN Absent
                        ELSE data[f]]]

\* doc_ref.set(document_data): the document is replaced
Set(store, doc_id, document_data) ==
    [i \in DOMAIN store \cup {doc_id} |-> IF i = doc_id THEN document_data ELSE store[i]]

\* doc_ref.update(update_data): the fields given are written, the others kept
Update(store, doc_id, update_data) ==
    [store EXCEPT ![doc_id] =
        [f \in Fields |-> IF update_data[f] # Absent THEN update_data[f] ELSE @[f]]]

\* doc_ref.delete()
Delete(store, doc_id) == [i \in DOMAIN store \ {doc_id} |-> store[i]]

\* {**data, "id": doc_id}
WithId(data, doc_id) == [data EXCEPT !["id"] = Val(doc_id)]

\* BaseRepository.get_by_id as a function of the store; `await doc_ref.get()` on a
\* snapshot that is not awaitable raises TypeError, reported as RepositoryError
GetByIdResult(store, doc_id) ==
    IF ~awaitable
    THEN [error |-> "RepositoryError", returned |-> "raised", document |-> EmptyDict]
    ELSE IF doc_id \notin DOMAIN store
    THEN [error |-> "none", returned |-> "None", document |-> EmptyDict]
    ELSE [error |-> "none", returned |-> "document",
          document |-> WithId(store[doc_id], doc_id)]

\* BaseRepository.get_by_id(doc_id)
GetById(doc_id) ==
    LET res == GetByIdResult(docs, doc_id)
    IN  /\ reply' = Reply("get_by_id", doc_id, EmptyDict,
                          res.error, res.returned, res.document)
        /\ UNCHANGED <<awaitable, docs, clock>>
        /\ UNCHANGED <<check_constraints, people, rels, last, calls, seen, answer,
                       dates, age>>

\* BaseRepository.create(data, doc_id); doc_id None is a new uuid4. The document
\* is written by doc_ref.set(...) before its result is awaited.
Create(data, doc_id) ==
    \E current_time \in clock..MaxClock :
        LET validated == ValidateCreateData(data)
            document_data == AddTimestamps(validated.data, FALSE, current_time)
        IN  /\ IF validated.error # "none"
               THEN /\ reply' = Reply("create", doc_id, data, validated.error,
                                      "raised", EmptyDict)
                    /\ UNCHANGED <<docs, clock>>
               ELSE /\ docs' = Set(docs, doc_id, document_data)
                    /\ clock' = current_time
                    /\ reply' = IF awaitable
                                THEN Reply("create", doc_id, data, "none", "document",
                                           WithId(document_data, doc_id))
                                ELSE Reply("create", doc_id, data, "RepositoryError",
                                           "raised", EmptyDict)
            /\ UNCHANGED awaitable
            /\ UNCHANGED <<check_constraints, people, rels, last, calls, seen, answer,
                           dates, age>>

\* BaseRepository.update(doc_id, data)
UpdateDocument(doc_id, data) ==
    \E current_time \in clock..MaxClock :
        LET validated == ValidateUpdateData(data)
            update_data == AddTimestamps(validated.data, TRUE, current_time)
            updated == Update(docs, doc_id, update_data)
            updated_doc == GetByIdResult(updated, doc_id)
        IN  /\ IF validated.error # "none"
               THEN /\ reply' = Reply("update", doc_id, data, validated.error,
                                      "raised", EmptyDict)
                    /\ UNCHANGED <<docs, clock>>
               ELSE IF ~awaitable
               THEN /\ reply' = Reply("update", doc_id, data, "RepositoryError",
                                      "raised", EmptyDict)
                    /\ UNCHANGED <<docs, clock>>
               ELSE IF doc_id \notin DOMAIN docs
               THEN /\ reply' = Reply("update", doc_id, data, "DocumentNotFoundError",
                                      "raised", EmptyDict)
                    /\ UNCHANGED <<docs, clock>>
               ELSE /\ docs' = updated
                    /\ clock' = current_time
                    /\ reply' = Reply("update", doc_id, data, updated_doc.error,
                                      updated_doc.returned, updated_doc.document)
            /\ UNCHANGED awaitable
            /\ UNCHANGED <<check_constraints, people, rels, last, calls, seen, answer,
                           dates, age>>

\* BaseRepository.delete(doc_id)
DeleteDocument(doc_id) ==
    /\ IF ~awaitable
       THEN /\ reply' = Reply("delete", doc_id, EmptyDict, "RepositoryError",
                              "raised", EmptyDict)
            /\ UNCHANGED docs
       ELSE IF doc_id \notin DOMAIN docs
       THEN /\ reply' = Reply("delete", doc_id, EmptyDict, "DocumentNotFoundError",
                              "raised", EmptyDict)
            /\ UNCHANGED docs
       ELSE /\ docs' = Delete(docs, doc_id)
            /\ reply' = Reply("delete", doc_id, EmptyDict, "none", "True", EmptyDict)
    /\ UNCHANGED <<awaitable, clock>>
    /\ UNCHANGED <<check_constraints, people, rels, last, calls, seen, answer,
                   dates, age>>

\* firestore_manager builds its references from the synchronous firestore.Client;
\* a caller may hand in the reference of an asynchronous client as collection_ref
InitRepository ==
    /\ check_constraints = FALSE
    /\ people = [p \in PersonIds |-> "t1"]
    /\ rels = {}
    /\ last = NoCall
    /\ calls = [k \in CallIds |-> Idle]
    /\ seen = {}
    /\ answer = NoAnswer
    /\ dates = [p \in PersonIds |-> NoDates]
    /\ age = NoAge
    /\ awaitable \in BOOLEAN
    /\ docs = [i \in {} |-> EmptyDict]
    /\ clock = 0
    /\ reply = NoReply

NextRepository ==
    \/ \E doc_id \in DocIds, data \in DataInputs : Create(data, doc_id)
    \/ \E doc_id \in DocIds : GetById(doc_id)
    \/ \E doc_id \in DocIds, data \in DataInputs : UpdateDocument(doc_id, data)
    \/ \E doc_id \in DocIds : DeleteDocument(doc_id)

SpecRepository == InitRepository /\ [][NextRepository]_vars

\* ---------------------------------------------------------------- interleaving
\* create_relationship as the event loop runs it: one step per awaited database
\* round trip, other coroutines run in between
ConcRequests ==
    { Candidate(<<1, 2>>, "partner", "engaged", None, DefaultDetail),
      Candidate(<<2, 1>>, "partner", "engaged", None, OtherDetail),
      Candidate(<<1, 2>>, "extended_family", "cousin", None, DefaultDetail),
      Candidate(<<1, 3>>, "partner", "engaged", None, DefaultDetail),
      Candidate(<<1, 2>>, "partner", NULL, None, DefaultDetail) }

\* create_relationship: await self._validate_relationship_people(...)
AwaitValidatePeople(k, c) ==
    LET check == ValidatePeople(c.from_person_id, c.to_person_id)
        call == Call("idle", c, 0, 0, "none")
    IN  /\ calls[k].pc = "idle"
        /\ calls' = [calls EXCEPT ![k] =
                        IF check # "ok" THEN Done(call, StatusOf(check), check)
                        ELSE Call("check_duplicate", c, 0, 0, "none")]
        /\ UNCHANGED <<check_constraints, people, rels, last, seen, aux>>

\* create_relationship: await self._check_duplicate_relationship(...)
AwaitCheckDuplicate(k) ==
    LET c == calls[k].request
        check == CheckDuplicate(rels, c.from_person_id, c.to_person_id,
                                c.relationship_category)
    IN  /\ calls[k].pc = "check_duplicate"
        /\ calls' = [calls EXCEPT ![k] =
                        IF check # "ok" THEN Done(@, StatusOf(check), check)
                        ELSE Call("commit", c, 0, 0, "none")]
        /\ UNCHANGED <<check_constraints, people, rels, last, seen, aux>>

\* create_relationship: _validate_relationship_rules, db.add, await db.commit()
AwaitCommit(k) ==
    LET c == calls[k].request
        check == ValidateRules(c)
        db_relationship == NewRow(FreshId(rels), c)
    IN  /\ calls[k].pc = "commit"
        /\ db_relationship.id \in RelIds
        /\ IF check # "ok"
           THEN /\ calls' = [calls EXCEPT ![k] = Done(@, StatusOf(check), check)]
                /\ UNCHANGED rels
           ELSE IF ~DbAccepts(db_relationship)
           THEN /\ calls' = [calls EXCEPT ![k] = Done(@, 500, "integrity_error")]
                /\ UNCHANGED rels
           ELSE /\ calls' = [calls EXCEPT ![k] =
                                Call("select_reciprocal", c, db_relationship.id, 0, "none")]
                /\ rels' = rels \cup {db_relationship}
        /\ UNCHANGED <<check_constraints, people, last, seen, aux>>

\* _create_reciprocal_relationship: await self.db.execute(select(...))
AwaitSelectReciprocal(k) ==
    LET c == calls[k].request
        n == Cardinality(Matching(rels, c.to_person_id, c.from_person_id,
                                  c.relationship_category))
    IN  /\ calls[k].pc = "select_reciprocal"
        /\ calls' = [calls EXCEPT ![k] =
                        IF c.relationship_category \notin {"partner", "sibling"}
                        THEN Done(@, 201, "ok")
                        ELSE IF n > 1 THEN Done(@, 500, "multiple_rows")
                        ELSE IF n = 1 THEN Done(@, 201, "ok")
                        ELSE Call("commit_reciprocal", c, @.id, 0, "none")]
        /\ UNCHANGED <<check_constraints, people, rels, last, seen, aux>>

\* _create_reciprocal_relationship: db.add(reciprocal), await self.db.commit()
AwaitCommitReciprocal(k) ==
    LET c == calls[k].request
        reciprocal == ReciprocalRow(FreshId(rels), NewRow(calls[k].id, c))
    IN  /\ calls[k].pc = "commit_reciprocal"
        /\ reciprocal.id \in RelIds
        /\ IF DbAccepts(reciprocal)
           THEN /\ calls' = [calls EXCEPT ![k] = Done(@, 201, "ok")]
                /\ rels' = rels \cup {reciprocal}
           ELSE /\ calls' = [calls EXCEPT ![k] = Done(@, 500, "integrity_error")]
                /\ UNCHANGED rels
        /\ UNCHANGED <<check_constraints, people, last, seen, aux>>

\* get_family_tree_relationships / get_person_relationships on another session:
\* the committed rows
ReadRelationships ==
    /\ seen' = rels
    /\ UNCHANGED <<check_constraints, people, rels, last, calls, aux>>

NextConc ==
    \/ \E k \in CallIds, c \in ConcRequests : AwaitValidatePeople(k, c)
    \/ \E k \in CallIds : AwaitCheckDuplicate(k)
    \/ \E k \in CallIds : AwaitCommit(k)
    \/ \E k \in CallIds : AwaitSelectReciprocal(k)
    \/ \E k \in CallIds : AwaitCommitReciprocal(k)
    \/ ReadRelationships

SpecConc == Init /\ [][NextConc]_vars

\* ---------------------------------------------------------------- properties
Symmetric == {"partner", "sibling"}

\* the row the last successful create_relationship stored
Created == { r \in rels : r.id = last.id }

CreateReturned == last.op = "create_relationship" /\ last.status = 201

\* m is the mirror row of r: reversed endpoints, same fields, generation_difference 0
MirrorOf(m, r) ==
    /\ m.from_person_id = r.to_person_id
    /\ m.to_person_id = r.from_person_id
    /\ m.relationship_category = r.relationship_category
    /\ m.relationship_subtype = r.relationship_subtype
    /\ m.generation_difference = Some(0)
    /\ m.is_active = r.is_active
    /\ m.start_date = r.start_date
    /\ m.end_date = r.end_date
    /\ m.notes = r.notes

\* C1: when create_relationship has returned successfully for a partner or
\* sibling relationship A -> B, the store holds a row B -> A of that category with
\* the same subtype, is_active, dates and notes and generation_difference 0.
C1_ReciprocalStored ==
    CreateReturned =>
        \A r \in Created :
            r.relationship_category \in Symmetric =>
                \E m \in rels : MirrorOf(m, r)

\* the rows between the persons of r, in either direction, of r's category
PairRows(store, r) ==
    Matching(store, r.from_person_id, r.to_person_id, r.relationship_category)
        \cup Matching(store, r.to_person_id, r.from_person_id, r.relationship_category)

SameKey(c, r) ==
    /\ c.from_person_id = r.from_person_id
    /\ c.to_person_id = r.to_person_id
    /\ c.relationship_category = r.relationship_category

\* C3: right after create_relationship has succeeded for (A, B, category), every
\* create_relationship with the same from, to and category, whatever its subtype,
\* generation_difference and details, is rejected with the duplicate error (400)
\* and leaves the store unchanged.
C3_DuplicateRejected ==
    CreateReturned =>
        \A r \in Created : \A c \in Candidates :
            SameKey(c, r) =>
                /\ CreateResult(c).detail = "duplicate"
                /\ StatusOf(CreateResult(c).detail) = 400
                /\ CreateResult(c).store = rels

\* a create_relationship was refused as a duplicate of a stored row
C3_Witness ==
    /\ last.op = "create_relationship"
    /\ last.status = 400
    /\ last.detail = "duplicate"
    /\ \E r \in rels : SameKey(last.request, r)

\* C4: create_relationship with from = to is rejected with an error, whether or
\* not that person exists and for every category, subtype and
\* generation_difference; the store is unchanged and no stored row is a self-loop.
C4_NoSelfRelationship ==
    /\ \A c \in Candidates :
            c.from_person_id = c.to_person_id =>
                /\ CreateResult(c).detail = "self"
                /\ StatusOf(CreateResult(c).detail) = 400
                /\ CreateResult(c).store = rels
    /\ \A r \in rels : r.from_person_id # r.to_person_id
    /\ last.op = "create_relationship"
            /\ last.request.from_person_id = last.request.to_person_id
        => last.status = 400

\* a create_relationship of a deleted person with itself was refused
C4_Witness ==
    /\ last.op = "create_relationship"
    /\ last.request.from_person_id = last.request.to_person_id
    /\ people[last.request.from_person_id] = NULL
    /\ last.detail = "self"

\* -1 or +1 for family_line, null for the other categories
GenerationRule(c) ==
    IF c.relationship_category = "family_line"
    THEN c.generation_difference \in {Some(-1), Some(1)}
    ELSE c.generation_difference = None

\* c is a RelationshipCreate object: an omitted generation_difference is None
IsRelationshipCreate(c) == RelationshipCreateValid(c, c.generation_difference # None)

C6_SubtypeRule ==
    last.op = "create_relationship" =>
        LET subtype == last.request.relationship_subtype
            allowed == \/ subtype = NULL
                       \/ subtype \in SchemaSubtypes(last.request.relationship_category)
        IN  /\ last.detail = "invalid_subtype" => ~allowed
            /\ last.status = 201 => allowed

\* C7: create_relationship is rejected with an error when either person is
\* missing or the two are in different family trees, and the store is unchanged;
\* both endpoints of every stored row exist and are in the same tree.
C7_SameTree ==
    /\ \A c \in Candidates :
            LET f == c.from_person_id
                t == c.to_person_id
            IN  f # t /\ (people[f] = NULL \/ people[t] = NULL \/ people[f] # people[t])
                    => /\ CreateResult(c).detail \in {"person_not_found", "cross_tree"}
                       /\ StatusOf(CreateResult(c).detail) \in {400, 404}
                       /\ CreateResult(c).store = rels
    /\ \A r \in rels :
            /\ people[r.from_person_id] # NULL
            /\ people[r.to_person_id] # NULL
            /\ people[r.from_person_id] = people[r.to_person_id]

\* a create_relationship between persons of two trees was refused while rows
\* are stored
C7_Witness ==
    /\ last.op = "create_relationship"
    /\ last.detail = "cross_tree"
    /\ last.status = 400
    /\ people[last.request.from_person_id] # people[last.request.to_person_id]
    /\ rels # {}

\* C8: whenever create_relationship, update_relationship or delete_relationship
\* returns an error, the store is exactly what it was before the call.
C8_ErrorLeavesStore ==
    [][ /\ last'.op \in {"create_relationship", "update_relationship",
                          "delete_relationship"}
        /\ last'.status >= 400
        => rels' = rels ]_vars

\* C9: no read running concurrently with a create_relationship of a partner or
\* sibling relationship returns a committed store with the primary row A -> B but
\* no mirror row B -> A: both inserts become visible together.
C9_PairVisibleTogether ==
    \A r \in seen :
        r.relationship_category \in Symmetric =>
            Matching(seen, r.to_person_id, r.from_person_id,
                     r.relationship_category) # {}

\* C10: of two concurrent create_relationship calls for the same from, to and
\* category at most one succeeds, the other is reported the duplicate error, and
\* at most one row of that key is stored.
C10_OneWinner ==
    \A j \in CallIds : \A k \in CallIds \ {j} :
        ( /\ calls[j].pc = "done"
          /\ calls[k].pc = "done"
          /\ SameKey(calls[j].request, calls[k].request)
          /\ calls[j].status = 201 )
        => /\ calls[k].status # 201
           /\ calls[k].detail = "duplicate"
           /\ Cardinality(Matching(rels, calls[j].request.from_person_id,
                                   calls[j].request.to_person_id,
                                   calls[j].request.relationship_category)) <= 1

\* r is a parent-to-child row a -> b
ParentRow(r, a, b) ==
    /\ r.from_person_id = a
    /\ r.to_person_id = b
    /\ r.relationship_category = "family_line"
    /\ r.generation_difference = Some(-1)

\* the stored rows that touch one of the persons
RowsTouching(persons) ==
    { r \in rels : r.from_person_id \in persons \/ r.to_person_id \in persons }

\* C11: for persons G, P, C of one tree linked only by the family_line rows G -> P
\* and P -> C (generation_difference -1 each), find_path(G, C, 5) returns found
\* with exactly the path [G -> P, P -> C], and find_path(G, C, 1) returns not
\* found with an empty path.
C11_TwoEdgePath ==
    \A G \in PersonIds : \A P \in PersonIds \ {G} : \A C \in PersonIds \ {G, P} :
        \A gp \in rels : \A pc \in rels :
            ( /\ ParentRow(gp, G, P)
              /\ ParentRow(pc, P, C)
              /\ RowsTouching({G, P, C}) = {gp, pc} )
            => /\ \A res \in FindPathResults(G, C, 5) :
                    res.status = 200 /\ res.found /\ res.path = <<gp, pc>>
               /\ \A res \in FindPathResults(G, C, 1) :
                    res.status = 200 /\ ~res.found /\ res.path = <<>>

\* find_relationship_path(1, 3, 5) has returned the two rows of the chain 1 -> 2 -> 3
C11_Witness ==
    /\ answer.op = "find_relationship_path"
    /\ answer.p1 = 1 /\ answer.p2 = 3 /\ answer.max_depth = 5
    /\ answer.ok
    /\ Len(answer.path) = 2
    /\ ParentRow(answer.path[1], 1, 2)
    /\ ParentRow(answer.path[2], 2, 3)
    /\ rels = {answer.path[1], answer.path[2]}

\* a sibling proposal for the pair {x, y} with confidence "high"
SiblingProposed(proposals, x, y) ==
    \E pp \in proposals :
        /\ pp.type = "sibling"
        /\ pp.confidence = "high"
        /\ {pp.person1_id, pp.person2_id} = {x, y}

C13_GrandparentProposed ==
    answer.op = "infer_missing_relationships" /\ answer.tree = "t1" =>
        \A G \in PersonIds : \A P \in PersonIds \ {G} : \A C \in PersonIds \ {G, P} :
            ( /\ \E r \in rels : ParentRow(r, G, P)
              /\ \E r \in rels : ParentRow(r, P, C)
              /\ \A r \in rels : {r.from_person_id, r.to_person_id} # {G, C} )
            => \E pp \in answer.proposals :
                    /\ pp.type = "grandparent"
                    /\ pp.person1_id = G
                    /\ pp.person2_id = C

\* C14: validate_only never changes the store: whatever the candidate and the
\* state, and whether the result is valid or invalid, the stored persons and
\* relationships after the call are those before it.
C14_ValidateReadOnly ==
    [][ answer'.op = "validate_relationship" => rels' = rels /\ people' = people ]_vars

\* validate_relationship has returned invalid for a payload that duplicates a
\* stored row, which is still the only row of its key
C14_Witness ==
    /\ answer.op = "validate_relationship"
    /\ ~answer.ok
    /\ answer.message = "duplicate"
    /\ Cardinality({ r \in rels : SameKey(answer.request, r) }) = 1

\* C15: infer_missing and find_path are read-only: whatever they return or
\* raise, no relationship is created, updated or deleted by the call; proposals
\* are returned, never stored.
C15_QueriesReadOnly ==
    [][ answer'.op \in {"infer_missing_relationships", "find_relationship_path"}
            => rels' = rels /\ people' = people ]_vars

\* infer_missing_relationships has returned proposals, none of which is stored
C15_Witness ==
    /\ answer.op = "infer_missing_relationships"
    /\ \E pp \in answer.proposals :
            /\ pp.type = "sibling"
            /\ Matching(rels, pp.person1_id, pp.person2_id, "sibling") = {}

\* the yyyymmdd number of a date: it orders dates as the calendar does
DayKey(d) == d[1] * 10000 + d[2] * 100 + d[3]

\* the birthday of the person born on `birth`, n years on
Anniversary(birth, n) == (birth[1] + n) * 10000 + birth[2] * 100 + birth[3]

\* C16: the age of a person with no birth_date is null; otherwise it is the
\* number n of whole years from birth_date to the earlier of as_of and
\* death_date, i.e. the n-th birthday is on or before that end date and the
\* (n+1)-th is after it; born 2000-06-15, the age is 19 on 2020-06-14 and 20 on
\* 2020-06-15 and on 2020-06-16.
C16_WholeYears ==
    age.op = "calculate_person_age" =>
        IF dates[age.person_id].birth_date = None THEN age.result = None
        ELSE \A birth \in dates[age.person_id].birth_date :
             LET ends == age.end_of \cup dates[age.person_id].death_date
                 end  == CHOOSE d \in ends : \A e \in ends : DayKey(d) <= DayKey(e)
             IN  /\ \E n \in age.result :
                        /\ Anniversary(birth, n) <= DayKey(end)
                        /\ DayKey(end) < Anniversary(birth, n + 1)
                 /\ Cardinality(age.result) = 1
                 /\ birth = <<2000, 6, 15>> /\ end = <<2020, 6, 14>> => age.result = {19}
                 /\ birth = <<2000, 6, 15>> /\ end = <<2020, 6, 15>> => age.result = {20}
                 /\ birth = <<2000, 6, 15>> /\ end = <<2020, 6, 16>> => age.result = {20}

\* the age asked on the birthday itself, of a person born 2000-06-15
C16_Witness ==
    /\ age.op = "calculate_person_age"
    /\ dates[age.person_id].birth_date = Some(<<2000, 6, 15>>)
    /\ age.as_of_date = Some(<<2020, 6, 15>>)
    /\ age.result = Some(20)

\* the request names the persons of row r the other way round, in r's category
ReverseKey(c, r) ==
    /\ c.from_person_id = r.to_person_id
    /\ c.to_person_id = r.from_person_id
    /\ c.relationship_category = r.relationship_category

\* C17: right after create_relationship has succeeded for (A, B, category), every
\* create_relationship for (B, A) with the same category, family_line and
\* extended_family included, is rejected with the duplicate error and adds no
\* row.
C17_DuplicateEitherDirection ==
    CreateReturned =>
        \A r \in Created : \A c \in Candidates :
            ReverseKey(c, r) =>
                /\ CreateResult(c).detail = "duplicate"
                /\ CreateResult(c).store = rels

\* C18: get_by_id of an id with no document returns None and raises nothing;
\* update and delete of such an id raise DocumentNotFoundError and leave the
\* collection as it was; after a delete that succeeded the id has no document,
\* so that get_by_id of it returns None.
C18_MissingDocument ==
    [][ /\ ( reply'.op = "get_by_id" /\ reply'.doc_id \notin DOMAIN docs )
            => reply'.error = "none" /\ reply'.returned = "None"
        /\ ( reply'.op \in {"update", "delete"} /\ reply'.doc_id \notin DOMAIN docs )
            => reply'.error = "DocumentNotFoundError" /\ docs' = docs
        /\ ( reply'.op = "delete" /\ reply'.error = "none" )
            => reply'.doc_id \notin DOMAIN docs' ]_vars

Adjacent(tree, a, b) ==
    \E r \in TreeRows(tree) :
        \/ r.from_person_id = a /\ r.to_person_id = b
        \/ /\ r.relationship_category \in Symmetric
           /\ r.from_person_id = b /\ r.to_person_id = a

\* the persons a path of at most n edges leads to from one of `reached`
RECURSIVE Within(_, _, _)
Within(tree, reached, n) ==
    IF n = 0 THEN reached
    ELSE Within(tree,
                reached \cup { b \in PersonIds : \E a \in reached : Adjacent(tree, a, b) },
                n - 1)

\* C20: find_path(p1, p2, max_depth) with p1 # p2 returns found with a non-empty
\* path whenever the adjacency graph of p1's tree has a path from p1 to p2 of at
\* most max_depth edges, a shortest path of exactly max_depth edges included, and
\* returns not found with the empty path only when it has none.
C20_FoundWithinDepth ==
    ( /\ answer.op = "find_relationship_path"
      /\ answer.status = 200
      /\ answer.p1 # answer.p2 )
    => LET connected == answer.p2 \in Within(people[answer.p1], {answer.p1},
                                             answer.max_depth)
       IN  /\ connected => answer.ok /\ Len(answer.path) > 0
           /\ ~connected => ~answer.ok /\ answer.path = <<>>

\* row r leads from a to b: stored as a -> b, or a partner or sibling row b -> a
Leads(r, a, b) ==
    \/ r.from_person_id = a /\ r.to_person_id = b
    \/ /\ r.relationship_category \in Symmetric
       /\ r.from_person_id = b /\ r.to_person_id = a

\* C21: a non-empty path returned by find_path(p1, p2, max_depth) is a chain of
\* stored rows of p1's tree from p1 to p2, each row leading from the person
\* reached so far to the next (family_line and extended_family rows from
\* from_person to to_person only, partner and sibling rows either way), and the
\* adjacency graph has no path from p1 to p2 with fewer edges.
C21_PathIsShortestChain ==
    ( answer.op = "find_relationship_path" /\ Len(answer.path) > 0 )
    => LET k == Len(answer.path)
           tree == people[answer.p1]
       IN  /\ \E nodes \in [0..k -> PersonIds] :
                /\ nodes[0] = answer.p1
                /\ nodes[k] = answer.p2
                /\ \A i \in 1..k :
                        /\ answer.path[i] \in TreeRows(tree)
                        /\ Leads(answer.path[i], nodes[i - 1], nodes[i])
           /\ answer.p2 \notin Within(tree, {answer.p1}, k - 1)

\* find_relationship_path(3, 2, ...) has returned a sibling row stored as 2 -> 3,
\* walked from 3 to 2
C21_Witness ==
    /\ answer.op = "find_relationship_path"
    /\ answer.p1 = 3 /\ answer.p2 = 2
    /\ Len(answer.path) = 1
    /\ answer.path[1].relationship_category = "sibling"
    /\ answer.path[1].from_person_id = 2

\* C22: after any sequence of create_relationship, update_relationship and
\* delete_relationship calls every stored family_line row has generation_difference
\* -1 or +1; an update that sets only generation_difference, to 0 or to null, on a
\* family_line row is rejected.
C22_FamilyLineGeneration ==
    \A r \in rels :
        r.relationship_category = "family_line" =>
            r.generation_difference \in {Some(-1), Some(1)}

\* C23: in every state reached by create_relationship, update_relationship and
\* delete_relationship calls, each stored partner or sibling row A -> B has a
\* stored mirror B -> A with the same category, subtype and is_active.
C23_MirrorInvariant ==
    \A r \in rels :
        r.relationship_category \in Symmetric =>
            \E m \in rels :
                /\ m.from_person_id = r.to_person_id
                /\ m.to_person_id = r.from_person_id
                /\ m.relationship_category = r.relationship_category
                /\ m.relationship_subtype = r.relationship_subtype
                /\ m.is_active = r.is_active

\* the generation_difference of c breaks the service's rule for c's category,
\* whatever its subtype
BreaksGenerationRule(c) ==
    \E subtype \in ServiceSubtypes(c.relationship_category) :
        ValidateRules([c EXCEPT !.relationship_subtype = subtype]) # "ok"

\* C24: of the rules a candidate violates, create_relationship reports the earliest
\* in the order self-relationship, person not found or cross-tree, category,
\* generation_difference, subtype, duplicate: a candidate whose
\* generation_difference and subtype are both invalid gets the generation error, and
\* a candidate that violates a rule and duplicates a stored row gets the rule's
\* error.
C24_ErrorOrder ==
    last.op = "create_relationship" =>
        LET c == last.request
        IN  /\ c.from_person_id = c.to_person_id => last.detail = "self"
            /\ ValidatePeople(c.from_person_id, c.to_person_id) # "ok"
                    => last.detail = ValidatePeople(c.from_person_id, c.to_person_id)
            /\ BreaksGenerationRule(c) => last.detail # "invalid_subtype"
            /\ last.detail \in {"duplicate", "multiple_rows"} => ValidateRules(c) = "ok"

\* C25: validate_only(candidate) returns valid = true exactly when
\* create_relationship(candidate), run in the same state, would pass its checks and
\* store the relationship: the two operations accept the same candidates.
C25_ValidateAgreesWithCreate ==
    answer.op = "validate_relationship" =>
        ( answer.ok <=> CreateResult(answer.request).detail = "ok" )

\* a is recorded as a parent of b: a family_line row a -> b with
\* generation_difference -1, or b -> a with +1
RecordedParent(a, b) ==
    \E r \in rels :
        /\ r.relationship_category = "family_line"
        /\ \/ /\ r.from_person_id = a /\ r.to_person_id = b
              /\ r.generation_difference = Some(-1)
           \/ /\ r.from_person_id = b /\ r.to_person_id = a
              /\ r.generation_difference = Some(1)

\* C26: ancestors(p) returns exactly the persons recorded as parents of p, and
\* descendants(p) exactly the persons recorded as children of p, so that x is a
\* descendant of p exactly when p is an ancestor of x; nobody is returned as a
\* descendant of their own child.
C26_ParentsAndChildren ==
    /\ ( answer.op = "get_person_ancestors" /\ answer.status = 200 )
        => answer.persons = { x \in PersonIds : RecordedParent(x, answer.p1) }
    /\ ( answer.op = "get_person_descendants" /\ answer.status = 200 )
        => /\ answer.persons = { x \in PersonIds : RecordedParent(answer.p1, x) }
           /\ \A x \in answer.persons : ~RecordedParent(x, answer.p1)

\* the dates a person has after `patch`: a date the patch does not set is the
\* stored one
Patched(person, patch) ==
    [birth_date |-> IF "birth_date" \in patch.fields THEN patch.birth_date
                    ELSE person.birth_date,
     death_date |-> IF "death_date" \in patch.fields THEN patch.death_date
                    ELSE person.death_date]

\* birth_date and death_date are both set and birth_date is not before death_date
NotBefore(person) ==
    \E b \in person.birth_date : \E d \in person.death_date : DayKey(b) >= DayKey(d)

\* C27: after any sequence of create_person and update_person calls every stored
\* person with both dates has birth_date < death_date; a create or an update
\* whose resulting dates would have birth_date >= death_date is rejected with 400,
\* and a rejected call leaves the stored persons as they were.
C27_BirthBeforeDeath ==
    [][ /\ \A p \in PersonIds : people'[p] # NULL => ~NotBefore(dates'[p])
        /\ \A p \in PersonIds : \A patch \in PersonPatchInputs :
                ( people[p] # NULL /\ NotBefore(Patched(dates[p], patch)) )
                => /\ UpdateDatesResult(dates[p], patch).detail = "bad_dates"
                   /\ UpdateDatesResult(dates[p], patch).dates = dates[p]
        /\ \A tree \in FamilyTrees : \A b, d \in PersonDateInputs :
                NotBefore(PersonDates(b, d))
                => CreatePersonResult(tree, b, d) = "bad_dates"
        /\ ( last'.op \in {"create_person", "update_person"} /\ last'.status # 200
                                                              /\ last'.status # 201 )
                => dates' = dates /\ people' = people
        /\ last'.detail = "bad_dates" => last'.status = 400 ]_vars

\* an update that set only death_date, to a date not after the stored birth_date,
\* was refused
C27_Witness ==
    /\ last.op = "update_person"
    /\ last.status = 400
    /\ last.detail = "bad_dates"
    /\ dates[last.id].birth_date = Some(<<2010, 6, 15>>)
    /\ dates[last.id].death_date = None

\* C28: delete_person(p) of a stored person succeeds whether p is the from-person
\* or the to-person of relationships, and removes every relationship that touches
\* p; in every reachable state both endpoints of every stored relationship are
\* stored persons.
C28_DeletePersonCascades ==
    [][ /\ \A p \in PersonIds :
                ( DeletePerson(p) /\ people[p] # NULL )
                => /\ last'.status = 204
                   /\ people'[p] = NULL
                   /\ \A r \in rels' : r.from_person_id # p /\ r.to_person_id # p
        /\ \A r \in rels' :
                people'[r.from_person_id] # NULL /\ people'[r.to_person_id] # NULL ]_vars

\* C29: after any sequence of sequential create_relationship,
\* update_relationship and delete_relationship calls, no two stored rows have the
\* same from_person_id, to_person_id and relationship_category.
C29_NoDuplicateKey ==
    \A r, s \in rels :
        ( /\ r.from_person_id = s.from_person_id
          /\ r.to_person_id = s.to_person_id
          /\ r.relationship_category = s.relationship_category )
        => r.id = s.id

\* C30: every grandparent proposal returned by infer_missing_relationships has
\* person1_id # person2_id and is backed by a stored chain of two parent rows:
\* person1_id -> P and P -> person2_id (generation_difference -1 each) for some
\* person P.
C30_GrandparentBacked ==
    answer.op = "infer_missing_relationships" =>
        \A pp \in answer.proposals :
            pp.type = "grandparent" =>
                /\ pp.person1_id # pp.person2_id
                /\ \E P \in PersonIds :
                        /\ \E r \in rels : ParentRow(r, pp.person1_id, P)
                        /\ \E r \in rels : ParentRow(r, P, pp.person2_id)

====
